---- MODULE Spec2Model ----
(***************************************************************************)
(* Kerr black-hole utilities: the ISCO module (src/src/physics/isco.py)    *)
(* and the shadow module (src/src/physics/shadow.py).                      *)
(*                                                                         *)
(* Numbers.  The source computes in binary64.  Here a real x is the        *)
(* integer nearest to x * Scale (fixed point, one unit = 1/Scale), every   *)
(* product, quotient and root is rounded to the nearest unit, and NaN is a *)
(* value of its own.  The operations are applied in the order the source   *)
(* applies them, so rounding, cancellation and division by a rounded zero  *)
(* show up in the model as they do in the source, at a coarser grain.      *)
(* A tolerance of the source that is smaller than one unit is the smallest *)
(* number of units that is not below it (x < 1.0e-12 and x < 1 unit select *)
(* the same representable numbers).                                        *)
(***************************************************************************)
EXTENDS Integers, Sequences, FiniteSets, TLC

VARIABLES pc, fn, args, res, k, points, grid, xi_vals, lo, hi, f0, f1, it, bracket, calls

vars == <<pc, fn, args, res, k, points, grid, xi_vals, lo, hi, f0, f1, it, bracket, calls>>

-----------------------------------------------------------------------------
(* Fixed-point arithmetic *)

\* units per 1.0
Scale == 1000

\* the value NaN (outside the range of every number the model computes)
NaN == 2147483646 + 1

IsNaN(x) == x = NaN

\* the values +inf and -inf
Inf == NaN - 1

NegInf == 0 - Inf

Abs(x) == IF x < 0 THEN 0 - x ELSE x

Sign(x) == IF x < 0 THEN 0 - 1 ELSE IF x > 0 THEN 1 ELSE 0

\* n / d for d > 0, rounded to the nearest integer
RDiv(n, d) == LET q == n \div d
                  r == n % d
              IN  IF 2 * r >= d THEN q + 1 ELSE q

\* x * y of two fixed-point numbers; the larger factor is split so that no
\* intermediate value leaves the 32-bit integers
MulSplit(x, y) == (x \div Scale) * y + RDiv((x % Scale) * y, Scale)

Mul(x, y) == IF Abs(x) >= Abs(y) THEN MulSplit(x, y) ELSE MulSplit(y, x)

\* x / y of two fixed-point numbers, y # 0
DivPos(x, y) == (x \div y) * Scale + RDiv((x % y) * Scale, y)

Div(x, y) == IF y > 0 THEN DivPos(x, y) ELSE DivPos(0 - x, 0 - y)

\* largest c in lo..hi with c^p <= v (p = 2 or 3)
RECURSIVE RootSearch(_, _, _, _)
RootSearch(v, p, l, h) ==
    IF l >= h THEN l
    ELSE LET m == (l + h + 1) \div 2
             pw == IF p = 2 THEN m * m ELSE m * m * m
         IN  IF pw <= v THEN RootSearch(v, p, m, h) ELSE RootSearch(v, p, l, m - 1)

\* np.sqrt of a fixed-point x >= 0; NaN for x < 0 or NaN
Sqrt(x) ==
    IF IsNaN(x) \/ x < 0 THEN NaN
    ELSE LET v == x * Scale
             c == RootSearch(v, 2, 0, 46000)
         IN  IF v - c * c > c THEN c + 1 ELSE c

\* np.cbrt of a fixed-point x >= 0
Cbrt(x) ==
    LET v == x * Scale * Scale
        c == RootSearch(v, 3, 0, 1280)
    IN  IF 2 * (v - c * c * c) > 3 * c * c + 3 * c + 1 THEN c + 1 ELSE c

Pi == RDiv(355 * Scale, 113)

\* sin of a fixed-point x with |x| <= pi/2 (Taylor series to x^9, Horner form),
\* never outside -1 .. 1
SinSmall(x) ==
    LET x2 == Mul(x, x)
        t4 == Scale - RDiv(x2, 72)
        t3 == Scale - RDiv(Mul(x2, t4), 42)
        t2 == Scale - RDiv(Mul(x2, t3), 20)
        t1 == Scale - RDiv(Mul(x2, t2), 6)
        s  == Mul(x, t1)
    IN  IF s > Scale THEN Scale ELSE IF s < 0 - Scale THEN 0 - Scale ELSE s

\* np.sin of a fixed-point angle in -2*pi .. 4*pi
Sin(x) ==
    LET y == (x + 2 * Pi) % (2 * Pi)
        z == IF y > Pi THEN y - 2 * Pi ELSE y
        w == IF 2 * z > Pi THEN Pi - z ELSE IF 2 * z < 0 - Pi THEN 0 - Pi - z ELSE z
    IN  SinSmall(w)

\* np.cos
Cos(x) == Sin(x + RDiv(Pi, 2))

\* np.deg2rad of a whole number of degrees
Deg2Rad(deg) == RDiv(deg * Pi, 180)

\* np.linspace(start, stop, num)[i], i = 0 .. num-1 (endpoint included)
Linspace(start, stop, num, i) == start + RDiv(i * (stop - start), num - 1)

-----------------------------------------------------------------------------
(* Results of a call: a returned value or a raised exception *)

Ok(v) == [st |-> "ok", msg |-> "", val |-> v]

Raise(exc, m) == [st |-> exc, msg |-> m, val |-> <<>>]

Failed(r) == r.st # "ok"

-----------------------------------------------------------------------------
(* src/src/physics/shadow.py: the pure functions *)

\* 1.0e-12 of xi_eta_spherical's test on a, in units (rounded up)
SPIN_TOL == 1

\* 1.0e-12 of xi_eta_spherical's test on Delta_p, in units (rounded up)
DELTA_P_TOL == 1

\* 1.0e-15 of screen_coords, in units (rounded up)
SIN_FLOOR == 1

\* _FACEON_TOL = 1.0e-6, in units (rounded up)
FACEON_TOL == 1

\* the 1.0e-6 added to the horizon radius to start the radial grids.  In the
\* source it is some 10^9 roundings wide, so Delta at the first grid radius is
\* well above its rounding error; five units keep that true of the model.
R_MIN_OFFSET == 5

\* r_max = 20.0
R_MAX == 20

\* horizon_radius(a)
horizon_radius(a) ==
    IF Abs(a) >= Scale
    THEN Raise("ValueError", "Spin parameter must satisfy |a| < 1.")
    ELSE Ok(Scale + Sqrt(Scale - Mul(a, a)))

\* the arithmetic of xi_eta_spherical once its three tests have passed;
\* numpy is TRUE when r is a numpy scalar (0/0 is NaN) and FALSE when it is a
\* Python float (division by zero raises)
XiEtaValues(r, a, numpy) ==
    LET Delta   == Mul(r, r) - 2 * r + Mul(a, a)
        Delta_p == 2 * r - 2 * Scale
        A       == Div(Mul(4 * r, Delta), Delta_p)
        xi      == Div(Mul(Mul(r, r) + Mul(a, a), Delta_p) - Mul(4 * r, Delta),
                       Mul(a, Delta_p))
    IN  IF Delta = 0
        THEN IF numpy THEN Ok(<<xi, NaN>>)
             ELSE Raise("ZeroDivisionError", "float division by zero")
        ELSE LET B   == Div(Mul(A, A), Delta)
                 eta == B - Mul(xi - a, xi - a)
             IN  Ok(<<xi, eta>>)

\* xi_eta_spherical(r, a)
xi_eta_spherical(r, a, numpy) ==
    IF Abs(a) < SPIN_TOL
    THEN Raise("ValueError", "a=0 handled analytically; xi undefined due to division by a.")
    ELSE LET h == horizon_radius(a)
         IN  IF Failed(h) THEN h
             ELSE IF r <= h.val
             THEN Raise("ValueError", "Radius must exceed the event horizon.")
             ELSE IF Abs(2 * r - 2 * Scale) < DELTA_P_TOL
             THEN Raise("ValueError", "Derivative of Delta too small for stable spherical orbit.")
             ELSE XiEtaValues(r, a, numpy)

\* screen_coords(xi, eta, a, inc_deg); it never fails
screen_coords(xi, eta, a, inc_deg) ==
    LET i_rad == Deg2Rad(inc_deg)
        s0    == Sin(i_rad)
        cos_i == Cos(i_rad)
        sin_i == IF Abs(s0) < SIN_FLOOR
                 THEN (IF s0 # 0 THEN Sign(s0) * SIN_FLOOR ELSE SIN_FLOOR)
                 ELSE s0
        alpha == Div(0 - xi, sin_i)
        beta_sq == IF IsNaN(eta) THEN NaN
                   ELSE eta + Mul(Mul(Mul(a, a), cos_i), cos_i)
                            - Div(Mul(Mul(xi, xi), Mul(cos_i, cos_i)), Mul(sin_i, sin_i))
    IN  IF ~IsNaN(beta_sq) /\ beta_sq < 0
        THEN Ok(<<NaN, NaN>>)
        ELSE Ok(<<alpha, Sqrt(beta_sq)>>)

-----------------------------------------------------------------------------
(* src/src/physics/isco.py *)

\* _validate_spin(a) for an array a (a sequence): TRUE when it raises
_validate_spin(a) == \E i \in 1..Len(a) : Abs(a[i]) >= Scale

SpinError == Raise("ValueError", "Spin parameter must satisfy |a| < 1.")

\* z1 for one valid spin
Z1Val(a) ==
    LET abs_a == Abs(a)
        term  == Cbrt(Scale - Mul(abs_a, abs_a))
    IN  Scale + Mul(term, Cbrt(Scale + abs_a) + Cbrt(Scale - abs_a))

\* z1(a), a scalar
z1(a) == IF _validate_spin(<<a>>) THEN SpinError ELSE Ok(Z1Val(a))

\* z2(a), a scalar
z2(a) ==
    LET z1_val == z1(a)
    IN  IF Failed(z1_val) THEN z1_val
        ELSE Ok(Sqrt(3 * Mul(a, a) + Mul(z1_val.val, z1_val.val)))

\* r_isco for one valid spin
RIscoVal(a, prograde) ==
    LET abs_a  == Abs(a)
        z1_val == Z1Val(a)
        z2_val == Sqrt(3 * Mul(abs_a, abs_a) + Mul(z1_val, z1_val))
        root   == Sqrt(Mul(3 * Scale - z1_val, 3 * Scale + z1_val + 2 * z2_val))
        sigma  == IF prograde THEN 0 - 1 ELSE 1
    IN  3 * Scale + z2_val + sigma * root

\* r_isco(a, prograde), a an array
r_isco(a, prograde) ==
    IF _validate_spin(a) THEN SpinError
    ELSE Ok([i \in 1..Len(a) |-> RIscoVal(a[i], prograde)])

\* the inner bracket r^1.5 - 3 r^0.5 + 2 a_term of E_equatorial, one element
Inner(r, a, prograde) ==
    LET abs_a  == Abs(a)
        a_term == IF prograde THEN abs_a ELSE 0 - abs_a
        sqrt_r == Sqrt(r)
        r32    == Mul(r, sqrt_r)
    IN  r32 - 3 * sqrt_r + 2 * a_term

\* the energy with the orbital sense term taken as a when prograde and -a
\* when retrograde
EnergyVal_SignedSpin(r, a, prograde) ==
    LET a_term == IF prograde THEN a ELSE 0 - a
        sqrt_r == Sqrt(r)
        r32    == Mul(r, sqrt_r)
        numerator   == r32 - 2 * sqrt_r + a_term
        inner       == r32 - 3 * sqrt_r + 2 * a_term
        denominator == IF inner < 0 THEN NaN ELSE Mul(Sqrt(r32), Sqrt(inner))
    IN  IF IsNaN(denominator) THEN NaN
        ELSE IF denominator # 0 THEN Div(numerator, denominator)
        ELSE IF numerator = 0 THEN NaN
        ELSE IF numerator > 0 THEN Inf ELSE NegInf

\* the energy of E_equatorial, one element with r > 0 (numpy arithmetic: the
\* root of a negative number is NaN, x / 0 is an infinity, 0 / 0 is NaN)
EnergyVal(r, a, prograde) ==
    LET abs_a  == Abs(a)
        a_term == IF prograde THEN abs_a ELSE 0 - abs_a
        sqrt_r == Sqrt(r)
        r32    == Mul(r, sqrt_r)
        numerator   == r32 - 2 * sqrt_r + a_term
        inner       == r32 - 3 * sqrt_r + 2 * a_term
        \* np.power(r, 0.75) is the square root of r^1.5
        denominator == IF inner < 0 THEN NaN ELSE Mul(Sqrt(r32), Sqrt(inner))
    IN  IF IsNaN(denominator) THEN NaN
        ELSE IF denominator # 0 THEN Div(numerator, denominator)
        ELSE IF numerator = 0 THEN NaN
        ELSE IF numerator > 0 THEN Inf ELSE NegInf

\* E_equatorial with an inner bracket of exactly zero let through
E_equatorial_StrictInner(r, a, prograde) ==
    IF \E i \in 1..Len(r) : r[i] <= 0
    THEN Raise("ValueError", "Radius must be positive.")
    ELSE IF _validate_spin(a) THEN SpinError
    ELSE IF \E i \in 1..Len(r) : Inner(r[i], a[i], prograde) < 0
    THEN Raise("ValueError", "Geodesic is not stable at the supplied radius.")
    ELSE Ok([i \in 1..Len(r) |-> EnergyVal(r[i], a[i], prograde)])

\* E_equatorial(r, a, prograde), r and a arrays of one shape
E_equatorial(r, a, prograde) ==
    IF \E i \in 1..Len(r) : r[i] <= 0
    THEN Raise("ValueError", "Radius must be positive.")
    ELSE IF _validate_spin(a) THEN SpinError
    ELSE IF \E i \in 1..Len(r) : Inner(r[i], a[i], prograde) <= 0
    THEN Raise("ValueError", "Geodesic is not stable at the supplied radius.")
    ELSE Ok([i \in 1..Len(r) |-> EnergyVal(r[i], a[i], prograde)])

\* eta(a, prograde), a an array
eta(a, prograde) ==
    LET radii == r_isco(a, prograde)
    IN  IF Failed(radii) THEN radii
        ELSE LET energies == E_equatorial(radii.val, a, prograde)
             IN  IF Failed(energies) THEN energies
                 ELSE Ok([i \in 1..Len(a) |-> Scale - energies.val[i]])

-----------------------------------------------------------------------------
(* src/src/physics/shadow.py: the boundary tracer and the face-on solver *)

\* the 2000 samples of _solve_face_on_radius's grid
GRID_N == 2000

\* the 80 iterations of the bisection
BISECT_ITERS == 80

\* shadow_boundary needs n >= 100
MIN_SAMPLES == 100

\* 0.5 * (x + y), a tie rounded to the even neighbour as binary64 does
Half(s) == IF s % 2 = 0 THEN s \div 2
           ELSE LET d == (s - 1) \div 2 IN IF d % 2 = 0 THEN d ELSE d + 1

\* a boundary point: alpha, beta, and whether beta is the negative zero -0.0
Point(alpha, beta, negzero) == <<alpha, beta, negzero>>

\* where np.arctan2(beta, alpha) lies: 0 for -pi, 1 inside (-pi, 0), 2 for 0,
\* 3 inside (0, pi), 4 for pi
Atan2Region(p) ==
    IF p[2] < 0 THEN 1
    ELSE IF p[2] > 0 THEN 3
    ELSE IF p[1] >= 0 THEN 2
    ELSE IF p[3] THEN 0 ELSE 4

\* np.arctan2(p.beta, p.alpha) <= np.arctan2(q.beta, q.alpha)
Atan2Leq(p, q) ==
    LET rp == Atan2Region(p)
        rq == Atan2Region(q)
    IN  IF rp # rq THEN rp < rq
        ELSE IF rp \in {1, 3} THEN p[1] * q[2] - q[1] * p[2] >= 0
        ELSE TRUE

\* np.argsort(angles) applied to pts: the points in ascending order of angle
RECURSIVE InsertByAngle(_, _)
InsertByAngle(p, sorted) ==
    IF sorted = <<>> THEN <<p>>
    ELSE IF Atan2Leq(sorted[Len(sorted)], p) THEN Append(sorted, p)
    ELSE Append(InsertByAngle(p, SubSeq(sorted, 1, Len(sorted) - 1)), sorted[Len(sorted)])

RECURSIVE SortByAngle(_)
SortByAngle(pts) ==
    IF pts = <<>> THEN <<>>
    ELSE InsertByAngle(pts[Len(pts)], SortByAngle(SubSeq(pts, 1, Len(pts) - 1)))

\* pts[:, 0], pts[:, 1]
Columns(pts) == <<[i \in 1..Len(pts) |-> pts[i][1]], [i \in 1..Len(pts) |-> pts[i][2]]>>

\* radius * cos(theta), radius * sin(theta) for theta = linspace(0, 2 pi, n, endpoint=False)
Circle(radius, n) ==
    LET theta(i) == RDiv((i - 1) * 2 * Pi, n)
    IN  <<[i \in 1..n |-> Mul(radius, Cos(theta(i)))],
          [i \in 1..n |-> Mul(radius, Sin(theta(i)))]>>

\* r_min of both radial grids, for |a| < 1
RMin(a) == horizon_radius(a).val + R_MIN_OFFSET

\* lines 65-77 of _solve_face_on_radius: xi on the grid (NaN where
\* xi_eta_spherical raises ValueError), then the valid samples only.  The
\* result is <<grid, xi_vals>>, or the exception that is not caught.
GridSample(a, i) == xi_eta_spherical(Linspace(RMin(a), R_MAX * Scale, GRID_N, i - 1), a, FALSE)

\* the samples that are not NaN, in grid order, as pairs <<r, xi>>
RECURSIVE Valid(_, _, _, _)
Valid(a, raw, from, to) ==
    IF from > to THEN <<>>
    ELSE IF from = to
    THEN (IF raw[from].st = "ok"
          THEN <<<<Linspace(RMin(a), R_MAX * Scale, GRID_N, from - 1), raw[from].val[1]>>>>
          ELSE <<>>)
    ELSE LET mid == (from + to) \div 2
         IN  Valid(a, raw, from, mid) \o Valid(a, raw, mid + 1, to)

\* one column of a sequence of pairs
RECURSIVE Column(_, _, _, _)
Column(pairs, c, from, to) ==
    IF from > to THEN <<>>
    ELSE IF from = to THEN <<pairs[from][c]>>
    ELSE LET mid == (from + to) \div 2
         IN  Column(pairs, c, from, mid) \o Column(pairs, c, mid + 1, to)

FaceOnSamples(a) ==
    LET raw  == [i \in 1..GRID_N |-> GridSample(a, i)]
        bad  == {i \in 1..GRID_N : raw[i].st \notin {"ok", "ValueError"}}
        kept == Valid(a, raw, 1, GRID_N)
    IN  IF bad # {}
        THEN raw[CHOOSE i \in bad : \A m \in bad : i <= m]
        ELSE Ok(<<Column(kept, 1, 1, Len(kept)), Column(kept, 2, 1, Len(kept))>>)

-----------------------------------------------------------------------------
(* Inputs *)

\* spins given to the tracer: 0, +-0.5, 0.9, and two outside |a| < 1
SpinInputs == {0, Scale \div 2, 0 - Scale \div 2, (9 * Scale) \div 10, Scale, 0 - (6 * Scale) \div 5}

\* spins given to the solver: those, 0.55 (a grid sample of xi is exactly
\* zero) and 0.45 (a midpoint of the bisection is an exact zero of xi)
SolverSpins == SpinInputs \cup {(11 * Scale) \div 20, (9 * Scale) \div 20}

\* inclinations in degrees; 0 is face-on
IncInputs == {0, 30, 60, 90}

\* sample counts around the minimum
SampleInputs == {0, MIN_SAMPLES - 1, MIN_SAMPLES, MIN_SAMPLES + 1, MIN_SAMPLES + 20}

NoArgs == [a |-> 0, inc_deg |-> 0, n |-> 0]

Idle ==
    /\ pc = "idle"
    /\ fn = ""
    /\ args = NoArgs
    /\ res = Ok(<<>>)
    /\ k = 0
    /\ points = <<>>
    /\ grid = <<>>
    /\ xi_vals = <<>>
    /\ lo = 0
    /\ hi = 0
    /\ f0 = 0
    /\ f1 = 0
    /\ it = 0
    /\ bracket = <<>>
    /\ calls = {}

Init == Idle

-----------------------------------------------------------------------------
(* _solve_face_on_radius, step by step *)

\* lines 63-77: the horizon radius, the grid and its samples
EnterSolver(a, caller) ==
    LET h == horizon_radius(a)
        smp == FaceOnSamples(a)
    IN  /\ calls' = caller \cup {"_solve_face_on_radius", "horizon_radius"}
                          \cup (IF Failed(h) THEN {} ELSE {"xi_eta_spherical"})
        /\ k' = 0
        /\ UNCHANGED <<points, lo, hi, f0, f1, it, bracket>>
        /\ IF Failed(h)
           THEN /\ res' = h
                /\ pc' = "done"
                /\ UNCHANGED <<grid, xi_vals>>
           ELSE IF Failed(smp)
           THEN /\ res' = smp
                /\ pc' = "done"
                /\ UNCHANGED <<grid, xi_vals>>
           ELSE /\ grid' = smp.val[1]
                /\ xi_vals' = smp.val[2]
                /\ pc' = "scan"
                /\ UNCHANGED res

\* a direct call _solve_face_on_radius(a)
SolveCall ==
    /\ pc = "idle"
    /\ \E a \in SolverSpins :
        /\ fn' = "_solve_face_on_radius"
        /\ args' = [a |-> a, inc_deg |-> 0, n |-> 0]
        /\ EnterSolver(a, {})

\* a scan that takes only a change from positive to negative for a bracket
ScanOutcome_Descending(g0, g1) ==
    IF g0 = 0 THEN "zero"
    ELSE IF g0 > 0 /\ g1 < 0 THEN "bracket"
    ELSE "next"

\* lines 81 and 83: what the scan does with the samples f0, f1 at idx, idx + 1
ScanOutcome(g0, g1) ==
    IF g0 = 0 THEN "zero"
    ELSE IF g0 * g1 < 0 THEN "bracket"
    ELSE "next"

\* a bisection that keeps the half without the sign change
BisectOutcome_Swapped(g0, g_mid) ==
    IF g_mid = 0 THEN "zero"
    ELSE IF g0 * g_mid < 0 THEN "lower"
    ELSE "upper"

\* lines 89 and 91: what the bisection does with f_mid
BisectOutcome(g0, g_mid) ==
    IF g_mid = 0 THEN "zero"
    ELSE IF g0 * g_mid < 0 THEN "upper"
    ELSE "lower"

SearchFailure ==
    Raise("RuntimeError", "Unable to locate face-on spherical orbit for the provided spin.")

\* lines 78-85 and 98: one index of the scan
ScanStep ==
    /\ pc = "scan"
    /\ UNCHANGED <<fn, args, points, grid, xi_vals, calls, it>>
    /\ IF k + 1 > Len(grid) - 1
       THEN /\ res' = SearchFailure
            /\ pc' = "done"
            /\ UNCHANGED <<k, lo, hi, f0, f1, bracket>>
       ELSE LET g0 == xi_vals[k + 1]
                g1 == xi_vals[k + 2]
                out == ScanOutcome(g0, g1)
            IN  IF out = "zero"
                THEN /\ res' = Ok(grid[k + 1])
                     /\ pc' = "solved"
                     /\ UNCHANGED <<k, lo, hi, f0, f1, bracket>>
                ELSE IF out = "bracket"
                THEN /\ lo' = grid[k + 1]
                     /\ hi' = grid[k + 2]
                     /\ f0' = g0
                     /\ f1' = g1
                     /\ bracket' = <<grid[k + 1], grid[k + 2]>>
                     /\ pc' = "bisect"
                     /\ UNCHANGED <<k, res>>
                ELSE /\ k' = k + 1
                     /\ UNCHANGED <<pc, res, lo, hi, f0, f1, bracket>>

\* lines 86-97: one iteration of the bisection, or the return after the last
BisectStep ==
    /\ pc = "bisect"
    /\ UNCHANGED <<fn, args, points, grid, xi_vals, calls, k, bracket>>
    /\ IF it >= BISECT_ITERS
       THEN /\ res' = Ok(Half(lo + hi))
            /\ pc' = "solved"
            /\ UNCHANGED <<lo, hi, f0, f1, it>>
       ELSE LET mid == Half(lo + hi)
                xe  == xi_eta_spherical(mid, args.a, FALSE)
                out == BisectOutcome(f0, xe.val[1])
            IN  IF Failed(xe)
                THEN /\ res' = xe
                     /\ pc' = "done"
                     /\ UNCHANGED <<lo, hi, f0, f1, it>>
                ELSE IF out = "zero"
                THEN /\ res' = Ok(mid)
                     /\ pc' = "solved"
                     /\ UNCHANGED <<lo, hi, f0, f1, it>>
                ELSE IF out = "upper"
                THEN /\ hi' = mid
                     /\ f1' = xe.val[1]
                     /\ it' = it + 1
                     /\ UNCHANGED <<lo, f0, pc, res>>
                ELSE /\ lo' = mid
                     /\ f0' = xe.val[1]
                     /\ it' = it + 1
                     /\ UNCHANGED <<hi, f1, pc, res>>

\* where a call of fn has ended
Terminal(f) ==
    IF f = "shadow_boundary" THEN {"done"}
    ELSE IF f = "_solve_face_on_radius" THEN {"done", "solved"}
    ELSE {"returned"}

\* the caller takes the result; the next call starts from scratch
Reset ==
    /\ pc \in Terminal(fn)
    /\ pc' = "idle"
    /\ fn' = ""
    /\ args' = NoArgs
    /\ res' = Ok(<<>>)
    /\ k' = 0
    /\ points' = <<>>
    /\ grid' = <<>>
    /\ xi_vals' = <<>>
    /\ lo' = 0
    /\ hi' = 0
    /\ f0' = 0
    /\ f1' = 0
    /\ it' = 0
    /\ bracket' = <<>>
    /\ calls' = {}

NextSolver == SolveCall \/ ScanStep \/ BisectStep \/ Reset

SpecSolver == Init /\ [][NextSolver]_vars

-----------------------------------------------------------------------------
(* shadow_boundary, step by step *)

SampleCountError == Raise("ValueError", "Number of samples should be >= 100 for stability.")

\* the same tests with the test on a moved before the test on n
Dispatch_SpinFirst(a, inc_deg, n) ==
    IF Abs(a) < SPIN_TOL THEN "circle"
    ELSE IF n < MIN_SAMPLES THEN "too_few"
    ELSE IF Abs(Sin(Deg2Rad(inc_deg))) < FACEON_TOL THEN "face_on"
    ELSE "general"

\* the same tests with the face-on test moved before the test on a
Dispatch_FaceOnFirst(a, inc_deg, n) ==
    IF n < MIN_SAMPLES THEN "too_few"
    ELSE IF Abs(Sin(Deg2Rad(inc_deg))) < FACEON_TOL THEN "face_on"
    ELSE IF Abs(a) < SPIN_TOL THEN "circle"
    ELSE "general"

\* lines 117-126: which path a call takes
Dispatch(a, inc_deg, n) ==
    IF n < MIN_SAMPLES THEN "too_few"
    ELSE IF Abs(a) < SPIN_TOL THEN "circle"
    ELSE IF Abs(Sin(Deg2Rad(inc_deg))) < FACEON_TOL THEN "face_on"
    ELSE "general"

\* the projected point without its mirror image
Mirrored_OnePoint(sc) == <<Point(sc[1], sc[2], FALSE)>>

\* lines 140-141: a projected point and its mirror image (alpha, -beta)
Mirrored(sc) == <<Point(sc[1], sc[2], FALSE), Point(sc[1], 0 - sc[2], sc[2] = 0)>>

\* no NaN test
Discarded_Never(sc) == FALSE

\* line 138: np.isnan(alpha) or np.isnan(beta)
Discarded(sc) == IsNaN(sc[1]) \/ IsNaN(sc[2])

\* lines 138-141
Kept(sc) == IF Discarded(sc) THEN <<>> ELSE Mirrored(sc)

\* lines 135-137: a ValueError of xi_eta_spherical skips the radius
Projected(xe, a, inc_deg) ==
    IF xe.st = "ValueError" THEN <<>>
    ELSE Kept(screen_coords(xe.val[1], xe.val[2], a, inc_deg).val)

\* lines 133-141: the points one candidate radius adds (r is a numpy scalar)
Candidate(r, a, inc_deg) == Projected(xi_eta_spherical(r, a, TRUE), a, inc_deg)

\* the number of candidate radii, n // 2
NumRadii(n) == n \div 2

\* r_grid[i], i = 0 .. n//2 - 1
RGrid(a, n, i) == Linspace(RMin(a), R_MAX * Scale, NumRadii(n), i)

\* the points left in the order of the radii
SortedPoints_Unsorted(pts) == pts

\* lines 146-149: pts[order]
SortedPoints(pts) == SortByAngle(pts)

\* a call shadow_boundary(a, inc_deg, n), up to the first loop
SbCall ==
    /\ pc = "idle"
    /\ \E a \in SpinInputs, inc_deg \in IncInputs, n \in SampleInputs :
        LET path == Dispatch(a, inc_deg, n)
            h == horizon_radius(a)
        IN  /\ fn' = "shadow_boundary"
            /\ args' = [a |-> a, inc_deg |-> inc_deg, n |-> n]
            /\ CASE path = "too_few" ->
                    /\ res' = SampleCountError
                    /\ pc' = "done"
                    /\ UNCHANGED <<k, points, grid, xi_vals, lo, hi, f0, f1, it, bracket, calls>>
                 [] path = "circle" ->
                    /\ res' = Ok(Circle(Sqrt(27 * Scale), n))
                    /\ pc' = "done"
                    /\ UNCHANGED <<k, points, grid, xi_vals, lo, hi, f0, f1, it, bracket, calls>>
                 [] path = "face_on" ->
                    \* _face_on_boundary, lines 102-105
                    IF Abs(a) < SPIN_TOL
                    THEN /\ res' = Ok(Circle(Sqrt(27 * Scale), n))
                         /\ pc' = "done"
                         /\ calls' = {"_face_on_boundary"}
                         /\ UNCHANGED <<k, points, grid, xi_vals, lo, hi, f0, f1, it, bracket>>
                    ELSE EnterSolver(a, {"_face_on_boundary"})
                 [] path = "general" ->
                    /\ calls' = {"horizon_radius"}
                    /\ k' = 0
                    /\ points' = <<>>
                    /\ UNCHANGED <<grid, xi_vals, lo, hi, f0, f1, it, bracket>>
                    /\ IF Failed(h)
                       THEN res' = h /\ pc' = "done"
                       ELSE res' = res /\ pc' = "sample"

\* lines 132-141: one candidate radius
SbSample ==
    /\ pc = "sample"
    /\ k < NumRadii(args.n)
    /\ points' = points \o Candidate(RGrid(args.a, args.n, k), args.a, args.inc_deg)
    /\ k' = k + 1
    /\ calls' = calls \cup {"xi_eta_spherical", "screen_coords"}
    /\ UNCHANGED <<pc, fn, args, res, grid, xi_vals, lo, hi, f0, f1, it, bracket>>

\* lines 143-150: the points in angle order, as two sequences
SbFinish ==
    /\ pc = "sample"
    /\ k = NumRadii(args.n)
    /\ points' = SortedPoints(points)
    /\ res' = Ok(Columns(points'))
    /\ pc' = "done"
    /\ UNCHANGED <<fn, args, k, grid, xi_vals, lo, hi, f0, f1, it, bracket, calls>>

\* _face_on_boundary, lines 106-111: the circle through the solved radius
FaceOnFinish ==
    /\ pc = "solved"
    /\ fn = "shadow_boundary"
    /\ LET xe == xi_eta_spherical(res.val, args.a, FALSE)
           radius == Sqrt(xe.val[2] + Mul(args.a, args.a))
       IN  res' = IF Failed(xe) THEN xe
                  ELSE IF IsNaN(radius)
                  THEN Raise("RuntimeError", "Face-on radius computation failed.")
                  ELSE Ok(Circle(radius, args.n))
    /\ pc' = "done"
    /\ UNCHANGED <<fn, args, k, points, grid, xi_vals, lo, hi, f0, f1, it, bracket, calls>>

NextShadow == SbCall \/ SbSample \/ SbFinish \/ ScanStep \/ BisectStep \/ FaceOnFinish \/ Reset

SpecShadow == Init /\ [][NextShadow]_vars

-----------------------------------------------------------------------------
(* Single calls of the functions that run without a loop *)

\* the longest array given to the ISCO functions
MaxLen == 2

\* spins given to single calls: 0, 0.216, 0.5, 0.95, 0.999, 1, -0.5, -1.5
SpinCallInputs ==
    {0, (27 * Scale) \div 125, Scale \div 2, (19 * Scale) \div 20, Scale - 1, Scale,
     0 - Scale \div 2, 0 - (3 * Scale) \div 2}

\* spins and radii given to E_equatorial: r = 3.24 with a = 0.216 or -0.216
\* retrograde has an inner bracket of exactly zero
EnergySpins == {0, (27 * Scale) \div 125, 0 - (27 * Scale) \div 125, Scale - 1, Scale}

EnergyRadii == {0 - Scale, 0, (81 * Scale) \div 25, 6 * Scale}

\* radii given to xi_eta_spherical: around the horizon of the spin, and fixed ones
RadiusInputs(a) ==
    {0, Scale, 3 * Scale, 6 * Scale}
        \cup (IF Abs(a) < Scale THEN {horizon_radius(a).val + d : d \in (0 - 1)..2} ELSE {})

Arrays(S) == UNION {[1..m -> S] : m \in 1..MaxLen}

\* what a call leaves alone
CallFrame == UNCHANGED <<k, points, grid, xi_vals, lo, hi, f0, f1, it, bracket, calls>>

Call_horizon_radius ==
    \E a \in SpinCallInputs :
        /\ pc = "idle"
        /\ pc' = "returned"
        /\ fn' = "horizon_radius"
        /\ args' = [a |-> <<a>>]
        /\ res' = horizon_radius(a)
        /\ CallFrame

Call_z1 ==
    \E a \in SpinCallInputs :
        /\ pc = "idle"
        /\ pc' = "returned"
        /\ fn' = "z1"
        /\ args' = [a |-> <<a>>]
        /\ res' = z1(a)
        /\ CallFrame

Call_z2 ==
    \E a \in SpinCallInputs :
        /\ pc = "idle"
        /\ pc' = "returned"
        /\ fn' = "z2"
        /\ args' = [a |-> <<a>>]
        /\ res' = z2(a)
        /\ CallFrame

Call_r_isco ==
    \E a \in Arrays(SpinCallInputs), prograde \in BOOLEAN :
        /\ pc = "idle"
        /\ pc' = "returned"
        /\ fn' = "r_isco"
        /\ args' = [a |-> a, prograde |-> prograde]
        /\ res' = r_isco(a, prograde)
        /\ CallFrame

Call_E_equatorial ==
    \E m \in 1..MaxLen : \E r \in [1..m -> EnergyRadii], a \in [1..m -> EnergySpins],
                            prograde \in BOOLEAN :
        /\ pc = "idle"
        /\ pc' = "returned"
        /\ fn' = "E_equatorial"
        /\ args' = [r |-> r, a |-> a, prograde |-> prograde]
        /\ res' = E_equatorial(r, a, prograde)
        /\ CallFrame

Call_eta ==
    \E a \in Arrays(SpinCallInputs), prograde \in BOOLEAN :
        /\ pc = "idle"
        /\ pc' = "returned"
        /\ fn' = "eta"
        /\ args' = [a |-> a, prograde |-> prograde]
        /\ res' = eta(a, prograde)
        /\ CallFrame

Call_xi_eta_spherical ==
    \E a \in SpinCallInputs : \E r \in RadiusInputs(a) :
        /\ pc = "idle"
        /\ pc' = "returned"
        /\ fn' = "xi_eta_spherical"
        /\ args' = [r |-> r, a |-> <<a>>]
        /\ res' = xi_eta_spherical(r, a, FALSE)
        /\ CallFrame

Call_screen_coords ==
    \E xi \in {0 - Scale, 0, 3 * Scale}, eta_val \in {0 - Scale, 25 * Scale},
       a \in SpinCallInputs, inc_deg \in {30, 60, 90} :
        /\ pc = "idle"
        /\ pc' = "returned"
        /\ fn' = "screen_coords"
        /\ args' = [xi |-> xi, eta |-> eta_val, a |-> <<a>>, inc_deg |-> inc_deg]
        /\ res' = screen_coords(xi, eta_val, a, inc_deg)
        /\ CallFrame

NextCalls ==
    \/ Call_horizon_radius
    \/ Call_z1
    \/ Call_z2
    \/ Call_r_isco
    \/ Call_E_equatorial
    \/ Call_eta
    \/ Call_xi_eta_spherical
    \/ Call_screen_coords
    \/ Reset

SpecCalls == Init /\ [][NextCalls]_vars

-----------------------------------------------------------------------------
(* Properties of shadow_boundary (SpecShadow) *)

Range(seq) == {seq[i] : i \in 1..Len(seq)}

Count(x, seq) == Cardinality({i \in 1..Len(seq) : seq[i] = x})

\* the same elements, as often
SameBag(s1, s2) ==
    /\ Len(s1) = Len(s2)
    /\ \A x \in Range(s1) \cup Range(s2) : Count(x, s1) = Count(x, s2)

\* the call in progress took the general path and passed horizon_radius
OnGeneralPath ==
    /\ fn = "shadow_boundary"
    /\ args.n >= MIN_SAMPLES
    /\ Abs(args.a) >= SPIN_TOL
    /\ Abs(args.a) < Scale
    /\ Abs(Sin(Deg2Rad(args.inc_deg))) >= FACEON_TOL

\* C1: shadow_boundary with n < 100 ends at once in the sample-count failure,
\* whatever a and inc_deg are and before anything else is called or computed;
\* with n >= 100 the sample-count failure is never the outcome.
C1_SampleCountRejectedFirst ==
    fn = "shadow_boundary" =>
        /\ args.n < MIN_SAMPLES =>
              /\ pc = "done"
              /\ res = SampleCountError
              /\ calls = {}
              /\ points = <<>>
              /\ grid = <<>>
        /\ args.n >= MIN_SAMPLES => res # SampleCountError

\* n = 99 with a spin outside |a| < 1: the sample-count failure, not the spin's
C1_Witness ==
    /\ fn = "shadow_boundary"
    /\ pc = "done"
    /\ args.n = MIN_SAMPLES - 1
    /\ Abs(args.a) >= Scale
    /\ res = SampleCountError

\* C3: whenever shadow_boundary returns, neither returned sequence holds a NaN,
\* and no NaN is ever among the accumulated points (a candidate whose projection
\* is the NaN pair is discarded).
C3_NoNaNReturned ==
    fn = "shadow_boundary" =>
        /\ \A i \in 1..Len(points) : ~IsNaN(points[i][1]) /\ ~IsNaN(points[i][2])
        /\ (pc = "done" /\ res.st = "ok") =>
              /\ Len(res.val[1]) = Len(res.val[2])
              /\ \A i \in 1..Len(res.val[1]) :
                    ~IsNaN(res.val[1][i]) /\ ~IsNaN(res.val[2][i])

\* candidate i of the general path has orbit constants but no real projection
NaNCandidate(a, inc_deg, n, i) ==
    LET xe == xi_eta_spherical(RGrid(a, n, i), a, TRUE)
    IN  /\ xe.st = "ok"
        /\ LET sc == screen_coords(xe.val[1], xe.val[2], a, inc_deg).val
           IN  IsNaN(sc[1]) \/ IsNaN(sc[2])

\* a general-path call has returned points although some candidate was NaN
C3_Witness ==
    /\ OnGeneralPath
    /\ pc = "done"
    /\ res.st = "ok"
    /\ Len(res.val[1]) > 0
    /\ \E i \in 0..(args.n \div 2 - 1) : NaNCandidate(args.a, args.inc_deg, args.n, i)

\* the points of the candidates i .. last, in the order the loop meets them
RECURSIVE Accumulated(_, _, _, _, _)
Accumulated(a, inc_deg, n, i, last) ==
    IF i > last THEN <<>>
    ELSE Candidate(RGrid(a, n, i), a, inc_deg) \o Accumulated(a, inc_deg, n, i + 1, last)

\* C4: on the general path the points come back in ascending order of
\* atan2(beta, alpha), the two returned sequences are the columns of one
\* sequence of points, and that sequence is a permutation of the accumulated
\* points.
C4_SortedByPolarAngle ==
    (OnGeneralPath /\ pc = "done" /\ res.st = "ok") =>
        /\ \A i \in 1..(Len(points) - 1) : Atan2Leq(points[i], points[i + 1])
        /\ res.val = Columns(points)
        /\ SameBag(points, Accumulated(args.a, args.inc_deg, args.n, 0, args.n \div 2 - 1))

\* a returned boundary of at least four points that the sort had to reorder
C4_Witness ==
    /\ OnGeneralPath
    /\ pc = "done"
    /\ res.st = "ok"
    /\ Len(points) >= 4
    /\ points # Accumulated(args.a, args.inc_deg, args.n, 0, args.n \div 2 - 1)

\* the pairs (alpha, beta), (alpha, -beta) of the candidates i .. last that
\* have orbit constants and a real projection
RECURSIVE ExpectedPairs(_, _, _, _, _)
ExpectedPairs(a, inc_deg, n, i, last) ==
    IF i > last THEN <<>>
    ELSE LET xe == xi_eta_spherical(Linspace(RMin(a), R_MAX * Scale, n \div 2, i), a, TRUE)
             sc == screen_coords(xe.val[1], xe.val[2], a, inc_deg).val
             here == IF xe.st # "ok" THEN <<>>
                     ELSE IF IsNaN(sc[1]) \/ IsNaN(sc[2]) THEN <<>>
                     ELSE << <<sc[1], sc[2]>>, <<sc[1], 0 - sc[2]>> >>
         IN  here \o ExpectedPairs(a, inc_deg, n, i + 1, last)

PairsOf(pts) == [i \in 1..Len(pts) |-> <<pts[i][1], pts[i][2]>>]

\* C5: on the general path n // 2 radii are sampled; the returned points are,
\* as a multiset, the pairs (alpha, beta) and (alpha, -beta) of the candidates
\* that have orbit constants and a real projection, and nothing else; so the
\* result is closed under beta -> -beta and its length is even and at most n.
C5_MirroredCandidates ==
    (OnGeneralPath /\ pc \in {"sample", "done"}) =>
        /\ k <= args.n \div 2
        /\ Len(points) % 2 = 0
        /\ Len(points) <= 2 * k
        /\ \A i \in 1..Len(points) :
              Count(<<points[i][1], points[i][2]>>, PairsOf(points))
                  = Count(<<points[i][1], 0 - points[i][2]>>, PairsOf(points))
        /\ pc = "done" =>
              /\ k = args.n \div 2
              /\ res.st = "ok"
              /\ res.val = Columns(points)
              /\ Len(res.val[1]) <= args.n
              /\ SameBag(PairsOf(points),
                         ExpectedPairs(args.a, args.inc_deg, args.n, 0, args.n \div 2 - 1))

\* a returned boundary that holds some candidates and not all of them
C5_Witness ==
    /\ OnGeneralPath
    /\ pc = "done"
    /\ Len(points) > 0
    /\ Len(points) < 2 * (args.n \div 2)
    /\ args.n % 2 = 1

\* (alpha, beta) is on the circle of squared radius 27, to within 0.1
OnCircle27(alpha, beta) ==
    10 * Abs(alpha * alpha + beta * beta - 27 * Scale * Scale) <= Scale * Scale

\* C6: for a within 1e-12 of zero and n >= 100 shadow_boundary returns at once
\* n points on the circle of squared radius 27 about the origin, at every
\* inclination, face-on included, and calls nothing: not the orbit constants,
\* not the face-on boundary or its solver.
C6_ZeroSpinCircle ==
    (fn = "shadow_boundary" /\ Abs(args.a) < SPIN_TOL /\ args.n >= MIN_SAMPLES) =>
        /\ pc = "done"
        /\ res.st = "ok"
        /\ Len(res.val[1]) = args.n
        /\ Len(res.val[2]) = args.n
        /\ \A i \in 1..args.n : OnCircle27(res.val[1][i], res.val[2][i])
        /\ calls = {}

\* zero spin seen face-on
C6_Witness ==
    /\ fn = "shadow_boundary"
    /\ pc = "done"
    /\ Abs(args.a) < SPIN_TOL
    /\ Abs(Sin(Deg2Rad(args.inc_deg))) < FACEON_TOL
    /\ args.n > MIN_SAMPLES
    /\ res.st = "ok"
    /\ Len(res.val[1]) = args.n

-----------------------------------------------------------------------------
(* Properties of _solve_face_on_radius (SpecSolver) *)

\* sample i of the scan is an exact zero
ZeroAt(i) == xi_vals[i] = 0

\* samples i and i + 1 of the scan have strictly opposite signs
ChangeAt(i) == Sign(xi_vals[i]) * Sign(xi_vals[i + 1]) < 0

\* position i of the scan holds an exact zero or a sign change
Hit(i) == ZeroAt(i) \/ ChangeAt(i)

\* the positions the scan visits
Scanned == 1..(Len(grid) - 1)

\* C7: the scan passes a position only if it holds neither an exact zero nor
\* a sign change; it resolves the radius at the earliest position that holds
\* one (the grid radius for an exact zero, a refinement inside the pair's
\* interval for a sign change); and the call ends in the search failure
\* exactly when no scanned position holds either.
C7_EarliestZeroOrSignChange ==
    (fn = "_solve_face_on_radius" /\ Abs(args.a) < Scale /\ pc # "idle") =>
        /\ Len(xi_vals) = Len(grid)
        /\ \A i \in 1..k : i \in Scanned /\ ~Hit(i)
        /\ pc = "bisect" =>
              /\ k + 1 \in Scanned
              /\ ~ZeroAt(k + 1)
              /\ ChangeAt(k + 1)
              /\ bracket = <<grid[k + 1], grid[k + 2]>>
              /\ bracket[1] <= lo
              /\ hi <= bracket[2]
        /\ pc = "solved" =>
              /\ k + 1 \in Scanned
              /\ Hit(k + 1)
              /\ res.st = "ok"
              /\ IF ZeroAt(k + 1) THEN res.val = grid[k + 1]
                 ELSE grid[k + 1] <= res.val /\ res.val <= grid[k + 2]
        /\ pc = "done" => (res = SearchFailure <=> \A i \in Scanned : ~Hit(i))
        /\ (pc \in {"solved", "done"} /\ \E i \in Scanned : Hit(i)) =>
              (pc = "solved" /\ k + 1 = CHOOSE i \in Scanned : Hit(i) /\ \A m \in 1..(i - 1) : ~Hit(m))

\* the scan has ended on an exact zero between a positive and a negative sample
C7_Witness ==
    /\ fn = "_solve_face_on_radius"
    /\ pc = "solved"
    /\ k > 0
    /\ ZeroAt(k + 1)
    /\ res.val = grid[k + 1]
    /\ Sign(xi_vals[k]) * Sign(xi_vals[k + 2]) < 0

\* a radius refined inside the interval of the first sign change
C7_RefinedWitness ==
    /\ fn = "_solve_face_on_radius"
    /\ pc = "solved"
    /\ k > 0
    /\ ChangeAt(k + 1)
    /\ grid[k + 1] < res.val
    /\ res.val < grid[k + 2]

\* the search failure: no scanned position holds a zero or a sign change
C7_FailureWitness ==
    /\ fn = "_solve_face_on_radius"
    /\ pc = "done"
    /\ res = SearchFailure

\* one iteration of the bisection that moves an endpoint
BisectIteration == pc = "bisect" /\ pc' = "bisect" /\ it' # it

\* the bracket of a bisection in progress, and the radius it returns
BracketInvariant ==
    /\ (fn = "_solve_face_on_radius" /\ pc = "bisect") =>
          /\ it <= BISECT_ITERS
          /\ bracket[1] <= lo
          /\ lo < hi
          /\ hi <= bracket[2]
          /\ Sign(f0) * Sign(f1) < 0
          /\ f0 = xi_eta_spherical(lo, args.a, FALSE).val[1]
          /\ f1 = xi_eta_spherical(hi, args.a, FALSE).val[1]
    /\ (fn = "_solve_face_on_radius" /\ pc = "solved" /\ bracket # <<>>) =>
          /\ bracket[1] <= res.val
          /\ res.val <= bracket[2]

\* C10 as stated: at most 80 iterations, initial_lo <= lo < hi <= initial_hi,
\* endpoint values of xi of strictly opposite signs, the returned radius inside
\* the grid interval of the sign change, and a width that halves (to the
\* nearest representable number) and so shrinks at each iteration.
C10_WidthHalvesEachStep ==
    /\ []BracketInvariant
    /\ [][BisectIteration =>
            /\ it' = it + 1
            /\ 2 * (hi' - lo') <= (hi - lo) + 1
            /\ hi' - lo' < hi - lo]_vars

\* C10, amended: at most 80 iterations, initial_lo <= lo < hi <= initial_hi,
\* endpoint values of xi of strictly opposite signs, the returned radius inside
\* the grid interval of the sign change; the width never grows and is at most
\* half the previous width rounded up to a representable number, and it stays
\* as it is once lo and hi are neighbouring representable numbers.
C10_BisectionBracket ==
    /\ []BracketInvariant
    /\ [][BisectIteration =>
            /\ it' = it + 1
            /\ hi' - lo' <= hi - lo
            /\ 2 * (hi' - lo') <= (hi - lo) + 1
            /\ (hi - lo = 1) => (hi' = hi /\ lo' = lo)]_vars

\* the 80th iteration done on a bracket of neighbouring numbers
C10_Witness ==
    /\ fn = "_solve_face_on_radius"
    /\ pc = "bisect"
    /\ it = BISECT_ITERS
    /\ hi - lo = 1
    /\ bracket[2] - bracket[1] > 1

-----------------------------------------------------------------------------
(* Properties of single calls (SpecCalls) *)

SpinFunctions ==
    {"z1", "z2", "r_isco", "E_equatorial", "eta", "horizon_radius",
     "xi_eta_spherical", "screen_coords"}

\* C2: a call of a public function with a spin outside |a| < 1 ends in the
\* domain error and returns nothing.
C2_EveryFunctionValidatesSpin ==
    (pc = "returned" /\ fn \in SpinFunctions /\ _validate_spin(args.a)) =>
        /\ res.st = "ValueError"
        /\ res.val = <<>>

\* C8: xi_eta_spherical(r, a) with |a| < 1 fails for a within 1e-12 of zero,
\* else for r at or below the horizon, else for |2r - 2| < 1e-12, in that
\* order, and for every other input returns a pair.
C8_OrbitConstantFailures ==
    (pc = "returned" /\ fn = "xi_eta_spherical" /\ Abs(args.a[1]) < Scale) =>
        IF Abs(args.a[1]) < SPIN_TOL
        THEN res = Raise("ValueError",
                         "a=0 handled analytically; xi undefined due to division by a.")
        ELSE IF args.r <= horizon_radius(args.a[1]).val
        THEN res = Raise("ValueError", "Radius must exceed the event horizon.")
        ELSE IF Abs(2 * args.r - 2 * Scale) < DELTA_P_TOL
        THEN res = Raise("ValueError",
                         "Derivative of Delta too small for stable spherical orbit.")
        ELSE res.st = "ok" /\ Len(res.val) = 2

\* some radius of the call is not positive
NonPositiveRadius == \E i \in 1..Len(args.r) : args.r[i] <= 0

\* some element of the call has an inner bracket that is not positive
UnstableRadius == \E i \in 1..Len(args.r) : Inner(args.r[i], args.a[i], args.prograde) <= 0

\* C9: E_equatorial fails with "Radius must be positive." when any r <= 0,
\* and with a domain error when the inner bracket of any element is <= 0; a
\* failed call returns no energy, whatever the other elements are; eta returns
\* the failure of r_isco or of E_equatorial at r_isco when there is one, and
\* 1 - E otherwise.
C9_EnergyDomainErrors ==
    /\ (pc = "returned" /\ fn = "E_equatorial") =>
          /\ NonPositiveRadius => res = Raise("ValueError", "Radius must be positive.")
          /\ (~NonPositiveRadius /\ UnstableRadius) =>
                /\ res.st = "ValueError"
                /\ ~_validate_spin(args.a) =>
                      res.msg = "Geodesic is not stable at the supplied radius."
          /\ Failed(res) => res.val = <<>>
          /\ (~NonPositiveRadius /\ ~_validate_spin(args.a) /\ ~UnstableRadius) =>
                /\ res.st = "ok"
                /\ Len(res.val) = Len(args.r)
                /\ \A i \in 1..Len(args.r) : res.val[i] \notin {NaN, Inf, NegInf}
    /\ (pc = "returned" /\ fn = "eta") =>
          /\ Failed(r_isco(args.a, args.prograde)) => res = r_isco(args.a, args.prograde)
          /\ ~Failed(r_isco(args.a, args.prograde)) =>
                /\ Failed(E_equatorial(r_isco(args.a, args.prograde).val, args.a, args.prograde)) =>
                      res = E_equatorial(r_isco(args.a, args.prograde).val, args.a, args.prograde)
                /\ res.st = "ok" =>
                      \A i \in 1..Len(args.a) :
                          res.val[i] = Scale - E_equatorial(r_isco(args.a, args.prograde).val,
                                                            args.a, args.prograde).val[i]

\* two radii, the first stable, the second with an inner bracket of exactly
\* zero: the whole call fails
C9_Witness ==
    /\ pc = "returned"
    /\ fn = "E_equatorial"
    /\ Len(args.r) = 2
    /\ ~NonPositiveRadius
    /\ Inner(args.r[1], args.a[1], args.prograde) > 0
    /\ Inner(args.r[2], args.a[2], args.prograde) = 0
    /\ res = Raise("ValueError", "Geodesic is not stable at the supplied radius.")

\* the spins of an array with their signs reversed, and without their signs
Negated(a) == [i \in 1..Len(a) |-> 0 - a[i]]

Unsigned(a) == [i \in 1..Len(a) |-> Abs(a[i])]

\* C11: in the ISCO module the sign of the spin has no effect: with every
\* |a| < 1, the outcome of r_isco, of E_equatorial and of eta (the values, or
\* the failure) is the outcome of the same call with every spin negated, and
\* with every spin replaced by |a|, under the same prograde flag.
C11_SpinSignHasNoEffect ==
    (pc = "returned" /\ fn \in {"r_isco", "E_equatorial", "eta"} /\ ~_validate_spin(args.a)) =>
        /\ fn = "r_isco" =>
              /\ res = r_isco(Negated(args.a), args.prograde)
              /\ res = r_isco(Unsigned(args.a), args.prograde)
        /\ fn = "E_equatorial" =>
              /\ res = E_equatorial(args.r, Negated(args.a), args.prograde)
              /\ res = E_equatorial(args.r, Unsigned(args.a), args.prograde)
        /\ fn = "eta" =>
              /\ res = eta(Negated(args.a), args.prograde)
              /\ res = eta(Unsigned(args.a), args.prograde)

\* E_equatorial has returned energies for a negative spin, and they are not
\* the energies of the other orbital sense
C11_Witness ==
    /\ pc = "returned"
    /\ fn = "E_equatorial"
    /\ \E i \in 1..Len(args.a) : args.a[i] < 0
    /\ res.st = "ok"
    /\ E_equatorial(args.r, args.a, ~args.prograde).st = "ok"
    /\ res # E_equatorial(args.r, args.a, ~args.prograde)

\* r_isco and eta have returned values for a negative spin, and they are not
\* the values of the other orbital sense
C11_RadiusWitness ==
    /\ pc = "returned"
    /\ fn = "r_isco"
    /\ \E i \in 1..Len(args.a) : args.a[i] < 0
    /\ res.st = "ok"
    /\ res # r_isco(args.a, ~args.prograde)

C11_EfficiencyWitness ==
    /\ pc = "returned"
    /\ fn = "eta"
    /\ \E i \in 1..Len(args.a) : args.a[i] < 0
    /\ res.st = "ok"
    /\ res # eta(args.a, ~args.prograde)

====
